---- MODULE Spec2Model ----
(***************************************************************************)
(* Model of validate_fsa029.py: the secure parser configuration, the       *)
(* in-memory rewrite of schemaLocation references, schema compilation and  *)
(* the validate() pipeline with its exit codes.                            *)
(*                                                                         *)
(* Strings are sequences of tokens.  The separators "/" and "\" are single *)
(* tokens and every other token is a run of characters without separator,  *)
(* so "marker in string" is "marker a contiguous sub-sequence".            *)
(***************************************************************************)
EXTENDS Integers, Sequences, FiniteSets, TLC

\* ---------------------------------------------------------------- bounds
MaxNodes == 2
MaxDocNodes == 1
MaxErr == 2

\* ------------------------------------------------------------- constants
XS_NS == "http://www.w3.org/2001/XMLSchema"
OTHER_NS == "urn:other"
FS == "/"
BS == "\\"
RefTags == <<"import", "include", "redefine">>
forbidden_parts == << <<FS, "CommonTypes", FS, "v14", FS>>,
                      <<BS, "CommonTypes", BS, "v14", BS>> >>
Platforms == {"posix", "nt"}

\* ---------------------------------------------------------------- strings
\* Python's `m in s` for strings
Contains(s, m) ==
    \E i \in 0..(Len(s) - Len(m)) : SubSeq(s, i + 1, i + Len(m)) = m

\* slip: only the forward-slash form is looked for
HasMarker_forwardOnly(s) == Contains(s, forbidden_parts[1])

\* "/CommonTypes/v14/" in loc or "\\CommonTypes\\v14\\" in loc
HasMarker(s) ==
    \E k \in 1..Len(forbidden_parts) : Contains(s, forbidden_parts[k])

\* ---------------------------------------------------------------- pathlib
\* the separators the platform's path flavour splits at
Seps(pf) == IF pf = "posix" THEN {FS} ELSE {FS, BS}
Sep(pf) == IF pf = "posix" THEN FS ELSE BS

RECURSIVE SplitRec(_, _, _, _)
SplitRec(s, seps, cur, acc) ==
    IF s = <<>> THEN Append(acc, cur)
    ELSE IF Head(s) \in seps THEN SplitRec(Tail(s), seps, <<>>, Append(acc, cur))
    ELSE SplitRec(Tail(s), seps, Append(cur, Head(s)), acc)

\* the components of a path string: empty components and "." are dropped,
\* ".." is kept
PathParts(s, pf) ==
    SelectSeq(SplitRec(s, Seps(pf), <<>>, <<>>),
              LAMBDA c : c # <<>> /\ c # <<".">>)

\* Path(s)
Path(s, pf) ==
    [anchor |-> (s # <<>> /\ Head(s) \in Seps(pf)), parts |-> PathParts(s, pf)]

RECURSIVE JoinParts(_, _)
JoinParts(parts, sep) ==
    IF parts = <<>> THEN <<>>
    ELSE IF Len(parts) = 1 THEN parts[1]
    ELSE parts[1] \o <<sep>> \o JoinParts(Tail(parts), sep)

\* str(p)
PathStr(p, pf) ==
    IF ~p.anchor /\ p.parts = <<>> THEN <<".">>
    ELSE (IF p.anchor THEN <<Sep(pf)>> ELSE <<>>) \o JoinParts(p.parts, Sep(pf))

\* p.name
PathName(p) == IF p.parts = <<>> THEN <<>> ELSE p.parts[Len(p.parts)]

\* p / s
PathJoin(p, s, pf) ==
    LET q == Path(s, pf)
    IN IF q.anchor THEN q
       ELSE [anchor |-> p.anchor, parts |-> p.parts \o q.parts]

RECURSIVE Collapse(_, _)
Collapse(parts, acc) ==
    IF parts = <<>> THEN acc
    ELSE IF Head(parts) = <<"..">>
         THEN Collapse(Tail(parts),
                       IF acc = <<>> THEN acc ELSE SubSeq(acc, 1, Len(acc) - 1))
         ELSE Collapse(Tail(parts), Append(acc, Head(parts)))

\* p.resolve() in working directory wd (no symbolic links on the way)
Resolve(p, wd) ==
    [anchor |-> TRUE,
     parts |-> Collapse(IF p.anchor THEN p.parts ELSE wd.parts \o p.parts, <<>>)]

\* percent-quoting done by as_uri(): a backslash in a posix name is encoded
Quote(c) == [k \in 1..Len(c) |-> IF c[k] = BS THEN "%5C" ELSE c[k]]

RECURSIVE UriParts(_)
UriParts(parts) ==
    IF parts = <<>> THEN <<>>
    ELSE <<FS>> \o Quote(Head(parts)) \o UriParts(Tail(parts))

\* p.as_uri() of an absolute path
AsUri(p, pf) ==
    IF pf = "posix"
    THEN <<"file:", FS, FS>> \o (IF p.parts = <<>> THEN <<FS>> ELSE UriParts(p.parts))
    ELSE <<"file:", FS, FS, FS, "C:">> \o (IF p.parts = <<>> THEN <<FS>> ELSE UriParts(p.parts))

\* --------------------------------------------------------------- XML tree
\* A tree is its root element plus the root's descendants in document
\* order; parent is 0 for a child of the root, else the index of the parent.
\* attrs is a function from the attribute names present to their values.
NS_ATTR == <<"urn:fsa-gov-uk:MER:CommonTypes:14">>

LocFwd == <<"..", FS, "CommonTypes", FS, "v14", FS, "CommonTypes-Schema.xsd">>
LocBack == <<"..", BS, "CommonTypes", BS, "v14", BS, "CommonTypes-Schema.xsd">>
LocUri == <<"http:", FS, FS, "host", FS, "CommonTypes", FS, "v14", FS, "CommonTypes-Schema.xsd">>
LocTrail == <<"x", FS, "CommonTypes", FS, "v14", FS>>
LocLocal == <<"sub", FS, "Other-Schema.xsd">>

NodeKinds ==
    { [tag |-> "import",   ns |-> XS_NS,    attrs |-> [namespace |-> NS_ATTR, schemaLocation |-> LocFwd]],
      [tag |-> "include",  ns |-> XS_NS,    attrs |-> [schemaLocation |-> LocBack]],
      [tag |-> "redefine", ns |-> XS_NS,    attrs |-> [schemaLocation |-> LocUri]],
      [tag |-> "redefine", ns |-> XS_NS,    attrs |-> [schemaLocation |-> LocTrail]],
      [tag |-> "import",   ns |-> XS_NS,    attrs |-> [namespace |-> NS_ATTR]],
      [tag |-> "include",  ns |-> XS_NS,    attrs |-> [schemaLocation |-> <<>>]],
      [tag |-> "include",  ns |-> XS_NS,    attrs |-> [schemaLocation |-> LocLocal]],
      [tag |-> "element",  ns |-> XS_NS,    attrs |-> [name |-> <<"e">>, schemaLocation |-> LocFwd]],
      [tag |-> "import",   ns |-> OTHER_NS, attrs |-> [schemaLocation |-> LocFwd]] }

RootKinds ==
    { [tag |-> "schema",  ns |-> XS_NS, attrs |-> [targetNamespace |-> <<"urn:fsa029">>]],
      [tag |-> "include", ns |-> XS_NS, attrs |-> [schemaLocation |-> LocFwd]] }

Parents(k) == {q \in [1..k -> 0..k] : \A i \in 1..k : q[i] < i}

TreesOfSize(k) ==
    { [root |-> r,
       nodes |-> [i \in 1..k |-> [tag |-> f[i].tag, ns |-> f[i].ns,
                                  attrs |-> f[i].attrs, parent |-> q[i]]]] :
        r \in RootKinds, f \in [1..k -> NodeKinds], q \in Parents(k) }

Trees(n) == UNION {TreesOfSize(k) : k \in 0..n}

\* node.get(k): some is FALSE for None
NodeGet(node, k) ==
    IF k \in DOMAIN node.attrs THEN [some |-> TRUE, val |-> node.attrs[k]]
    ELSE [some |-> FALSE, val |-> <<>>]

\* node.set(k, v)
NodeSet(node, k, v) ==
    [node EXCEPT !.attrs = [x \in (DOMAIN node.attrs) \cup {k} |->
                               IF x = k THEN v ELSE node.attrs[x]]]

\* `not loc`: None or the empty string
Falsy(loc) == ~loc.some \/ loc.val = <<>>

\* root.findall(".//xs:<tag>", namespaces=NS): the descendants of the root
\* (never the root itself) with that tag in the XSD namespace, document order
FindAll(nodes, tag) ==
    SelectSeq([i \in 1..Len(nodes) |-> i],
              LAMBDA i : nodes[i].ns = XS_NS /\ nodes[i].tag = tag)

\* ---------------------------------------- rewrite_schema_imports_in_memory
\* (schema_dir / file_name).resolve().as_uri() with file_name = Path(loc).name
LocalUri(schema_dir, loc, pf, wd) ==
    LET file_name == PathName(Path(loc, pf))
    IN AsUri(Resolve(PathJoin(schema_dir, file_name, pf), wd), pf)

\* slip: every non-empty location is redirected, the marker is not asked for
RewriteNode_unconditional(node, schema_dir, pf, wd) ==
    LET loc == NodeGet(node, "schemaLocation")
    IN IF Falsy(loc) THEN node
       ELSE NodeSet(node, "schemaLocation", LocalUri(schema_dir, loc.val, pf, wd))

\* body of the first loop for one node
RewriteNode(node, schema_dir, pf, wd) ==
    LET loc == NodeGet(node, "schemaLocation")
    IN IF Falsy(loc) THEN node
       ELSE IF HasMarker(loc.val)
            THEN NodeSet(node, "schemaLocation", LocalUri(schema_dir, loc.val, pf, wd))
            ELSE node

\* slip: `break` instead of `continue` at a node without location
RECURSIVE RewriteNodes_break(_, _, _, _, _)
RewriteNodes_break(nodes, idxs, schema_dir, pf, wd) ==
    IF idxs = <<>> THEN nodes
    ELSE IF Falsy(NodeGet(nodes[Head(idxs)], "schemaLocation")) THEN nodes
    ELSE RewriteNodes_break([nodes EXCEPT ![Head(idxs)] = RewriteNode(@, schema_dir, pf, wd)],
                            Tail(idxs), schema_dir, pf, wd)

RECURSIVE RewriteNodes(_, _, _, _, _)
RewriteNodes(nodes, idxs, schema_dir, pf, wd) ==
    IF idxs = <<>> THEN nodes
    ELSE RewriteNodes([nodes EXCEPT ![Head(idxs)] = RewriteNode(@, schema_dir, pf, wd)],
                      Tail(idxs), schema_dir, pf, wd)

\* the first pair of loops: for each tag, for each node found
RECURSIVE RewritePass(_, _, _, _, _)
RewritePass(nodes, tags, schema_dir, pf, wd) ==
    IF tags = <<>> THEN nodes
    ELSE RewritePass(RewriteNodes(nodes, FindAll(nodes, Head(tags)), schema_dir, pf, wd),
                     Tail(tags), schema_dir, pf, wd)

\* condition of the second loop's raise for one node
StillForbidden(node) ==
    LET loc == NodeGet(node, "schemaLocation")
    IN HasMarker(IF Falsy(loc) THEN <<>> ELSE loc.val)

\* slip: the second pass looks at the first tag only
CheckPass_firstTagOnly(nodes, tags) ==
    \E j \in 1..Len(FindAll(nodes, tags[1])) :
        StillForbidden(nodes[FindAll(nodes, tags[1])[j]])

\* the second pair of loops: TRUE when the RuntimeError is raised
CheckPass(nodes, tags) ==
    \E k \in 1..Len(tags) :
        \E j \in 1..Len(FindAll(nodes, tags[k])) :
            StillForbidden(nodes[FindAll(nodes, tags[k])[j]])

rewrite_schema_imports_in_memory(xsd_tree, schema_dir, pf, wd) ==
    LET t == [xsd_tree EXCEPT !.nodes = RewritePass(@, RefTags, schema_dir, pf, wd)]
    IN [tree |-> t, raised |-> CheckPass(t.nodes, RefTags)]

\* ------------------------------------------------------ make_secure_parser
make_secure_parser ==
    [load_dtd |-> FALSE, no_network |-> TRUE,
     resolve_entities |-> FALSE, huge_tree |-> FALSE]

\* ------------------------------------------------- schema engine error log
Entries ==
    { [line |-> 3, column |-> 0, message |-> "missing child element"],
      [line |-> 7, column |-> 5, message |-> "not a valid value"] }

Logs(n) == UNION {[1..k -> Entries] : k \in 0..n}

MsgLine(stream, text) ==
    [stream |-> stream, kind |-> text, ordinal |-> 0, line |-> 0, column |-> 0,
     message |-> ""]

\* one "  {i}. Line {entry.line}, Col {entry.column}: {entry.message}" line
DiagLine(stream, i, entry) ==
    [stream |-> stream, kind |-> "diag", ordinal |-> i, line |-> entry.line,
     column |-> entry.column, message |-> entry.message]

\* slip: only the first entry of the log is reported
FormatLog_firstOnly(stream, error_log) ==
    [i \in 1..(IF error_log = <<>> THEN 0 ELSE 1) |-> DiagLine(stream, i, error_log[i])]

\* for i, entry in enumerate(error_log, 1)
FormatLog(stream, error_log) ==
    [i \in 1..Len(error_log) |-> DiagLine(stream, i, error_log[i])]

\* ------------------------------------------------------------------ inputs
DirArgs ==
    { <<"schemas">>,
      <<"schemas", FS>>,
      <<"x", FS, "CommonTypes", FS, "v14", FS>>,
      <<"x", FS, "CommonTypes", FS, "v14", FS, "schemas">>,
      <<"x", BS, "CommonTypes", BS, "v14", BS, "schemas">> }

SubArgs ==
    { <<"sub.xml">>,
      <<"in", FS, "CommonTypes", FS, "v14", FS, "sub.xml">> }

\* working directories (absolute)
Cwds ==
    { [anchor |-> TRUE, parts |-> << <<"work">> >>],
      [anchor |-> TRUE, parts |-> << <<"CommonTypes">>, <<"v14">>, <<"work">> >>] }

\* one executed stage and how it ended
Ran(stage, outcome) == [stage |-> stage, outcome |-> outcome]

EmptyTree == [root |-> [tag |-> "schema", ns |-> XS_NS, attrs |-> <<>>], nodes |-> <<>>]
Stages == <<"load_root", "load_ct", "load_sub", "rewrite", "compile", "validate">>

\* ------------------------------------------------------------------- state
VARIABLES
    platform,    \* the path flavour of the host: "posix" or "nt"
    cwd,         \* the working directory resolve() starts from
    args,        \* args.schema_dir and args.submission as supplied
    schema_dir,  \* Path(args.schema_dir)
    pc,          \* position in validate(), or in the direct call of rewrite
    rc,          \* return code of validate(), -1 while running
    fail,        \* which failure ended the run
    stages,      \* the pipeline stages executed so far with their outcomes
    parses,      \* the parser configuration of every parse made so far
    tree0,       \* the root schema tree as loaded
    tree,        \* the root schema tree (mutated in place by the rewrite)
    err_log,     \* the schema engine's error log of the failed stage
    verdict,     \* the engine's answer for the submission, "none" before
    out          \* the lines printed so far

vars == <<platform, cwd, args, schema_dir, pc, rc, fail, stages, parses,
          tree0, tree, err_log, verdict, out>>

Init ==
    /\ platform \in Platforms
    /\ cwd \in Cwds
    /\ args \in [schema_dir : DirArgs, submission : SubArgs]
    /\ schema_dir = Path(<<>>, "posix")
    /\ pc = "start"
    /\ rc = -1
    /\ fail = "none"
    /\ stages = <<>>
    /\ parses = <<>>
    /\ tree0 = EmptyTree
    /\ tree = EmptyTree
    /\ err_log = <<>>
    /\ verdict = "none"
    /\ out = <<>>

\* print(..., file=sys.stderr); return 2
Return2(cause, lines) ==
    /\ pc' = "done"
    /\ rc' = 2
    /\ fail' = cause
    /\ out' = out \o lines

\* _contains_forbidden(p)
ContainsForbidden(p, pf) == HasMarker(PathStr(p, pf))

\* lines 81-91: build the paths, reject a forbidden location
Precheck ==
    /\ pc = "start"
    /\ schema_dir' = Path(args.schema_dir, platform)
    /\ IF \/ ContainsForbidden(Path(args.schema_dir, platform), platform)
          \/ ContainsForbidden(Path(args.submission, platform), platform)
       THEN Return2("forbidden", <<MsgLine("stderr", "must not contain")>>)
       ELSE /\ pc' = "exists"
            /\ UNCHANGED <<rc, fail, out>>
    /\ UNCHANGED <<platform, cwd, args, stages, parses, tree0, tree, err_log, verdict>>

\* lines 94-101: is_dir() / is_file() probes, answered by the file system
Exists ==
    /\ pc = "exists"
    /\ \E dirOk \in BOOLEAN, fsaOk \in BOOLEAN, ctOk \in BOOLEAN, subOk \in BOOLEAN :
          IF ~dirOk THEN Return2("not_dir", <<MsgLine("stderr", "Not a directory")>>)
          ELSE IF ~fsaOk THEN Return2("missing_fsa", <<MsgLine("stderr", "Missing")>>)
          ELSE IF ~ctOk THEN Return2("missing_ct", <<MsgLine("stderr", "Missing")>>)
          ELSE IF ~subOk THEN Return2("missing_sub", <<MsgLine("stderr", "Missing")>>)
          ELSE /\ pc' = "load_root"
               /\ UNCHANGED <<rc, fail, out>>
    /\ UNCHANGED <<platform, cwd, args, schema_dir, stages, parses, tree0, tree,
                   err_log, verdict>>

\* slip: ET.parse with lxml's default parser
load_xml_parser_default ==
    [load_dtd |-> FALSE, no_network |-> TRUE,
     resolve_entities |-> TRUE, huge_tree |-> FALSE]

\* load_xml(path, kind): the parser handed to ET.parse
load_xml_parser == make_secure_parser

\* outcome of ET.parse: a tree, XMLSyntaxError or OSError
LoadOutcomes == {"ok", "XMLSyntaxError", "OSError"}

LoadFailure(res) == IF res = "XMLSyntaxError" THEN "malformed" ELSE "unreadable"

\* line 104: xsd_tree = load_xml(fsa_xsd, kind="Main XSD")
LoadRoot ==
    /\ pc = "load_root"
    /\ parses' = Append(parses, load_xml_parser)
    /\ \E res \in LoadOutcomes :
          /\ stages' = Append(stages, Ran("load_root", res))
          /\ IF res = "ok"
             THEN /\ \E t \in Trees(MaxDocNodes) : tree' = t /\ tree0' = t
                  /\ pc' = "load_ct"
                  /\ UNCHANGED <<rc, fail, out>>
             ELSE /\ Return2(LoadFailure(res), <<MsgLine("stderr", res)>>)
                  /\ UNCHANGED <<tree, tree0>>
    /\ UNCHANGED <<platform, cwd, args, schema_dir, err_log, verdict>>

\* slip: a failed common-types load is not fatal
LoadCT_notFatal ==
    /\ pc = "load_ct"
    /\ parses' = Append(parses, load_xml_parser)
    /\ \E res \in LoadOutcomes : stages' = Append(stages, Ran("load_ct", res))
    /\ pc' = "load_sub"
    /\ UNCHANGED <<platform, cwd, args, schema_dir, tree0, tree, err_log, verdict,
                   rc, fail, out>>

\* line 105: _ = load_xml(ct_xsd, kind="CommonTypes XSD")
LoadCT ==
    /\ pc = "load_ct"
    /\ parses' = Append(parses, load_xml_parser)
    /\ \E res \in LoadOutcomes :
          /\ stages' = Append(stages, Ran("load_ct", res))
          /\ IF res = "ok"
             THEN /\ pc' = "load_sub"
                  /\ UNCHANGED <<rc, fail, out>>
             ELSE Return2(LoadFailure(res), <<MsgLine("stderr", res)>>)
    /\ UNCHANGED <<platform, cwd, args, schema_dir, tree0, tree, err_log, verdict>>

\* lines 106-110: xml_doc = load_xml(submission, kind="Submission")
LoadSub ==
    /\ pc = "load_sub"
    /\ parses' = Append(parses, load_xml_parser)
    /\ \E res \in LoadOutcomes :
          /\ stages' = Append(stages, Ran("load_sub", res))
          /\ IF res = "ok"
             THEN /\ pc' = "rewrite"
                  /\ out' = Append(out, MsgLine("stdout", "Loaded"))
                  /\ UNCHANGED <<rc, fail>>
             ELSE Return2(LoadFailure(res), <<MsgLine("stderr", res)>>)
    /\ UNCHANGED <<platform, cwd, args, schema_dir, tree0, tree, err_log, verdict>>

\* lines 112-115
Rewrite ==
    /\ pc = "rewrite"
    /\ LET r == rewrite_schema_imports_in_memory(tree, schema_dir, platform, cwd)
       IN /\ tree' = r.tree
          /\ stages' = Append(stages, Ran("rewrite", IF r.raised THEN "RuntimeError" ELSE "ok"))
          /\ IF r.raised
                THEN Return2("incomplete", <<MsgLine("stderr", "still present after rewrite")>>)
                ELSE /\ pc' = "compile"
                     /\ UNCHANGED <<rc, fail, out>>
    /\ UNCHANGED <<platform, cwd, args, schema_dir, parses, tree0, err_log, verdict>>

\* compile_schema: the message of the RuntimeError raised for an error log
compile_schema_message(error_log) ==
    <<[MsgLine("stderr", "Schema compilation failed") EXCEPT !.ordinal = Len(error_log)]>>
        \o FormatLog("stderr", error_log)

\* lines 117-120 with compile_schema (64-77): re-parse under the secure
\* parser, then the engine compiles or raises XMLSchemaParseError
Compile ==
    /\ pc = "compile"
    /\ parses' = Append(parses, make_secure_parser)
    /\ \E compiled \in BOOLEAN :
          /\ stages' = Append(stages, Ran("compile", IF compiled THEN "ok" ELSE "XMLSchemaParseError"))
          /\ IF compiled
             THEN /\ pc' = "validate"
                  /\ UNCHANGED <<rc, fail, out, err_log>>
             ELSE \E error_log \in Logs(MaxErr) :
                     /\ err_log' = error_log
                     /\ Return2("compile", compile_schema_message(error_log))
    /\ UNCHANGED <<platform, cwd, args, schema_dir, tree0, tree, verdict>>

\* the lines printed for a non-conformant submission (128-130)
issues_lines(error_log) ==
    <<MsgLine("stdout", "Issues")>> \o FormatLog("stdout", error_log)

\* lines 123-131: ok = schema.validate(xml_doc)
Validate ==
    /\ pc = "validate"
    /\ stages' = Append(stages, Ran("validate", "ok"))
    /\ pc' = "done"
    /\ \E ok \in BOOLEAN :
          /\ verdict' = IF ok THEN "valid" ELSE "invalid"
          /\ IF ok
             THEN /\ rc' = 0
                  /\ out' = Append(out, MsgLine("stdout", "conforms"))
                  /\ UNCHANGED err_log
             ELSE \E error_log \in Logs(MaxErr) :
                     /\ rc' = 1
                     /\ err_log' = error_log
                     /\ out' = out \o issues_lines(error_log)
    /\ UNCHANGED <<platform, cwd, args, schema_dir, fail, parses, tree0, tree>>

Next ==
    \/ Precheck
    \/ Exists
    \/ LoadRoot
    \/ LoadCT
    \/ LoadSub
    \/ Rewrite
    \/ Compile
    \/ Validate

Spec == Init /\ [][Next]_vars

\* ------------------------------ direct calls of the rewrite on any tree
InitRewrite ==
    /\ tree0 \in Trees(MaxNodes)
    /\ platform \in Platforms
    /\ cwd \in Cwds
    /\ args = [schema_dir |-> <<>>, submission |-> <<>>]
    /\ schema_dir \in {Path(d, platform) : d \in DirArgs}
    /\ pc = "call"
    /\ rc = -1
    /\ fail = "none"
    /\ stages = <<>>
    /\ parses = <<>>
    /\ tree = tree0
    /\ err_log = <<>>
    /\ verdict = "none"
    /\ out = <<>>

\* rewrite_schema_imports_in_memory(tree, schema_dir) called and finished
CallRewrite ==
    /\ pc = "call"
    /\ LET r == rewrite_schema_imports_in_memory(tree, schema_dir, platform, cwd)
       IN /\ tree' = r.tree
          /\ pc' = IF r.raised THEN "raised" ELSE "returned"
    /\ UNCHANGED <<platform, cwd, args, schema_dir, rc, fail, stages, parses,
                   tree0, err_log, verdict, out>>

SpecRewrite == InitRewrite /\ [][CallRewrite]_vars

\* ================================================================ claims
MarkerFwd == <<FS, "CommonTypes", FS, "v14", FS>>
MarkerBack == <<BS, "CommonTypes", BS, "v14", BS>>
Marked(s) == Contains(s, MarkerFwd) \/ Contains(s, MarkerBack)

IsRef(n) == n.ns = XS_NS /\ n.tag \in {"import", "include", "redefine"}
HasLoc(n) == "schemaLocation" \in DOMAIN n.attrs
LocOf(n) == IF HasLoc(n) THEN n.attrs["schemaLocation"] ELSE <<>>
MatchedNode(n) == IsRef(n) /\ Marked(LocOf(n))
AllElements(t) == {t.root} \cup {t.nodes[i] : i \in 1..Len(t.nodes)}
RootIsSchema(t) == t.root.ns = XS_NS /\ t.root.tag = "schema"
CallDone == pc \in {"returned", "raised"}

\* the last non-empty segment of a location, split at "/" and at "\"
FinalSegment(s) ==
    LET c == SelectSeq(SplitRec(s, {FS, BS}, <<>>, <<>>), LAMBDA x : x # <<>>)
    IN IF c = <<>> THEN <<>> ELSE c[Len(c)]

\* the local file URI of <trusted directory>/<file name>
TargetUri(name) == AsUri(Resolve(PathJoin(schema_dir, name, platform), cwd), platform)

\* C1 - rewrite completeness: when the rewrite of a schema tree (root element
\* xs:schema) returns, no import/include/redefine element of the XSD
\* namespace, at any depth, has a schemaLocation containing the marker in
\* either slash form.
RewriteCompleteness ==
    (pc = "returned" /\ RootIsSchema(tree0)) =>
        \A n \in AllElements(tree) : IsRef(n) => ~Marked(LocOf(n))

\* two matching nodes, one per slash form, the second nested in the first
RewriteCompletenessWitness ==
    /\ pc = "returned"
    /\ RootIsSchema(tree0)
    /\ Len(tree0.nodes) = 2
    /\ MatchedNode(tree0.nodes[1]) /\ MatchedNode(tree0.nodes[2])
    /\ Contains(LocOf(tree0.nodes[1]), MarkerFwd)
    /\ Contains(LocOf(tree0.nodes[2]), MarkerBack)
    /\ tree0.nodes[2].parent = 1

\* C2 - redirect target: every reference node that matched the marker ends
\* with schemaLocation equal to the local file URI of the trusted directory
\* joined with the final segment of the original location, the segment being
\* found the same way for "/" and for "\" separators.
RedirectTarget ==
    CallDone =>
        \A i \in 1..Len(tree0.nodes) :
            MatchedNode(tree0.nodes[i]) =>
                LocOf(tree.nodes[i]) = TargetUri(FinalSegment(LocOf(tree0.nodes[i])))

\* C3 - rewrite locality: the call changes nothing but the schemaLocation
\* value of reference nodes that match the marker.
RewriteLocality ==
    CallDone =>
        /\ tree.root = tree0.root
        /\ Len(tree.nodes) = Len(tree0.nodes)
        /\ \A i \in 1..Len(tree0.nodes) :
              LET a == tree0.nodes[i]
                  b == tree.nodes[i]
              IN /\ b.tag = a.tag /\ b.ns = a.ns /\ b.parent = a.parent
                 /\ DOMAIN b.attrs = DOMAIN a.attrs
                 /\ \A k \in (DOMAIN a.attrs) \ {"schemaLocation"} : b.attrs[k] = a.attrs[k]
                 /\ ~MatchedNode(a) => b = a

\* a matching import with a namespace attribute is redirected next to a
\* reference to a local file
RewriteLocalityWitness ==
    /\ pc = "returned"
    /\ Len(tree0.nodes) = 2
    /\ MatchedNode(tree0.nodes[1])
    /\ "namespace" \in DOMAIN tree0.nodes[1].attrs
    /\ tree.nodes[1] # tree0.nodes[1]
    /\ IsRef(tree0.nodes[2])
    /\ LocOf(tree0.nodes[2]) = LocLocal

\* C9 - a reference node without schemaLocation, or with an empty one, is
\* left as it is (no attribute added), raises nothing itself, and the
\* matching nodes around it are still redirected.
SkipMissingLocation ==
    CallDone =>
        /\ \A i \in 1..Len(tree0.nodes) :
              (IsRef(tree0.nodes[i]) /\ LocOf(tree0.nodes[i]) = <<>>) =>
                  tree.nodes[i] = tree0.nodes[i]
        /\ \A j \in 1..Len(tree0.nodes) :
              MatchedNode(tree0.nodes[j]) =>
                  LocOf(tree.nodes[j]) = LocalUri(schema_dir, LocOf(tree0.nodes[j]), platform, cwd)
        /\ pc = "raised" =>
              \E j \in 1..Len(tree0.nodes) :
                  MatchedNode(tree0.nodes[j]) /\ Marked(LocOf(tree.nodes[j]))

\* an import without schemaLocation precedes a matching import
SkipMissingLocationWitness ==
    /\ pc = "returned"
    /\ Len(tree0.nodes) = 2
    /\ tree0.nodes[1].tag = "import" /\ IsRef(tree0.nodes[1]) /\ ~HasLoc(tree0.nodes[1])
    /\ tree0.nodes[2].tag = "import" /\ MatchedNode(tree0.nodes[2])
    /\ ~HasLoc(tree.nodes[1])
    /\ LocOf(tree.nodes[2]) # LocOf(tree0.nodes[2])

\* C10 - the "still present after rewrite" error is raised exactly when some
\* reference node matched the marker and the local URI that replaced its
\* location contains the marker itself; otherwise the call returns the tree.
CompletenessAssertionFires ==
    CallDone =>
        (pc = "raised" <=>
            \E i \in 1..Len(tree0.nodes) :
                /\ MatchedNode(tree0.nodes[i])
                /\ Marked(LocalUri(schema_dir, LocOf(tree0.nodes[i]), platform, cwd)))

\* the trusted directory resolves below .../CommonTypes/v14/ and a node matched
CompletenessAssertionFiresWitness ==
    /\ pc = "raised"
    /\ \E i \in 1..Len(tree0.nodes) : MatchedNode(tree0.nodes[i])
    /\ \E i \in 1..Len(tree0.nodes) : ~MatchedNode(tree0.nodes[i])

\* what the operator supplied on the command line
SuppliedForbidden == Marked(args.schema_dir) \/ Marked(args.submission)

\* C4 - a schema directory or submission argument that contains the marker
\* as supplied, also as its trailing part, makes validate return 2 before
\* any load, parse, rewrite, compile or validation.
ForbiddenPathPrecondition ==
    (pc # "start" /\ SuppliedForbidden) =>
        (pc = "done" /\ rc = 2 /\ stages = <<>> /\ parses = <<>>)

StagesSucceeded ==
    /\ Len(stages) >= 5
    /\ \A k \in 1..5 : stages[k].outcome = "ok"

\* C5 - every run ends with 0, 1 or 2; 0 exactly when all stages succeeded
\* and the submission is valid, 1 exactly when all stages succeeded and it
\* is invalid, 2 exactly when an operational failure occurred, a forbidden
\* supplied path included.
TriStateResult ==
    pc = "done" =>
        /\ rc \in {0, 1, 2}
        /\ rc = 0 <=> (StagesSucceeded /\ verdict = "valid")
        /\ rc = 1 <=> (StagesSucceeded /\ verdict = "invalid")
        /\ rc = 2 <=> (SuppliedForbidden \/ fail # "none")

\* the same with the failures validate() detects: holds of the code
TriStateOfDetectedFailures ==
    pc = "done" =>
        /\ rc \in {0, 1, 2}
        /\ rc = 0 <=> (StagesSucceeded /\ verdict = "valid")
        /\ rc = 1 <=> (StagesSucceeded /\ verdict = "invalid")
        /\ rc = 2 <=> fail # "none"

\* C6 - the stages run at most once, in the fixed order, each only after
\* every earlier one succeeded; a failed stage ends the run with code 2 and
\* nothing runs after it.
FailFastOrdering ==
    /\ Len(stages) <= Len(Stages)
    /\ \A k \in 1..Len(stages) : stages[k].stage = Stages[k]
    /\ \A k \in 1..(Len(stages) - 1) : stages[k].outcome = "ok"
    /\ (stages # <<>> /\ stages[Len(stages)].outcome # "ok") => (pc = "done" /\ rc = 2)

\* the common-types load fails although the root schema references nothing
FailFastOrderingWitness ==
    /\ Len(stages) = 2
    /\ stages[2].stage = "load_ct" /\ stages[2].outcome = "XMLSyntaxError"
    /\ tree0.nodes = <<>>
    /\ pc = "done" /\ rc = 2

DiagLines == SelectSeq(out, LAMBDA l : l.kind = "diag")

\* C7 - after a compilation failure or a non-conformant submission the
\* reported diagnostics are the engine's error log entry by entry, in order,
\* numbered from 1.
CompleteOrderedDiagnostics ==
    (fail = "compile" \/ rc = 1) =>
        /\ Len(DiagLines) = Len(err_log)
        /\ \A i \in 1..Len(err_log) :
              /\ DiagLines[i].ordinal = i
              /\ DiagLines[i].line = err_log[i].line
              /\ DiagLines[i].column = err_log[i].column
              /\ DiagLines[i].message = err_log[i].message

\* the engine reports the same entry twice for a non-conformant submission
CompleteOrderedDiagnosticsWitness ==
    /\ rc = 1
    /\ Len(err_log) = 2
    /\ err_log[1] = err_log[2]
    /\ Len(DiagLines) = 2

ParseStages == {"load_root", "load_ct", "load_sub", "compile"}

\* C8 - every parse of the run (three loads and the re-parse in
\* compile_schema) uses a configuration with entity resolution, DTD loading
\* and huge trees off and network access denied.
HardenedParsing ==
    /\ \A i \in 1..Len(parses) :
          /\ parses[i].resolve_entities = FALSE
          /\ parses[i].load_dtd = FALSE
          /\ parses[i].no_network = TRUE
          /\ parses[i].huge_tree = FALSE
    /\ Len(parses) = Cardinality({k \in 1..Len(stages) : stages[k].stage \in ParseStages})

HardenedParsingWitness ==
    /\ pc = "done"
    /\ rc = 0
    /\ Len(parses) = 4

====
